---- MODULE Spec2Model ----
\* A model of the OpenPayroll ink! contract (src/contracts/lib.rs): the contract
\* storage, the host environment it reads (block number, caller, balances) and
\* one action per message.  A message that returns Err keeps the writes it made
\* before returning, as the source does; a Rust panic (unwrap on None) aborts
\* the call and leaves the storage as it was.
EXTENDS Integers, Sequences, FiniteSets, TLC

\* ---------------------------------------------------------------- bounds

\* The host's block number runs from the deployment block up to MaxBlock.
MaxBlock == 3
\* The contract is deployed at a block in 0..MaxInitialBlock.
MaxInitialBlock == 1
\* claim_payment is called with amount in 0..MaxAmount.
MaxAmount == 3
\* Multiplier ids are 0..MaxMultiplierId-1: add_base_multiplier no longer
\* succeeds once next_multiplier_id has reached MaxMultiplierId.
MaxMultiplierId == 2
\* MAX_BENEFICIARIES (lib.rs:15, 100 in the source) scaled down.
MAX_BENEFICIARIES == 2
\* MAX_MULTIPLIERS (lib.rs:16, 10 in the source) scaled down.
MAX_MULTIPLIERS == 2
\* The balance the constructor is paid (the treasury at deployment).
InitialBalance == 4
\* A call that would leave a beneficiary more than MaxUnclaimed unclaimed
\* payments is not made (the balance a beneficiary can accumulate is unbounded).
MaxUnclaimed == 3

\* ---------------------------------------------------------------- inputs

\* Option::None of an Option<BlockNumber>.
None == -1
\* Option::None of an Option<AccountId>.
NoAccount == "none"

Accounts == {"alice", "bob", "charlie"}
\* The accounts registered as beneficiaries in the runs explored.
BeneficiaryIds == {"bob", "charlie"}
\* The accounts that call messages.
Callers == {"alice", "bob"}
\* The deployer (env().caller() of the constructor).
Deployer == "alice"

Periodicities == {1, 2}
BasePayments == {100, 150}
MultiplierIds == 0 .. (MaxMultiplierId - 1)

\* Vec<(MultiplierId, Multiplier)> arguments: the lists of at most two pairs
\* (id, weight), multiplier id giving weight id + 2; an id may repeat.
Pairs == {<<id, id + 2>> : id \in MultiplierIds}
WeightLists ==
    {<<>>} \cup {<<p>> : p \in Pairs} \cup {<<p, q>> : p \in Pairs, q \in Pairs}

\* ---------------------------------------------------------------- state

VARIABLES
    transfered_owner,        \* Option<AccountId>
    owner,                   \* AccountId
    beneficiaries,           \* Mapping<AccountId, Beneficiary>
    beneficiaries_accounts,  \* Vec<AccountId>
    periodicity,             \* u32
    base_payment,            \* Balance
    initial_block,           \* u32
    paused_block_at,         \* Option<u32>
    next_multiplier_id,      \* MultiplierId
    base_multipliers,        \* Mapping<MultiplierId, BaseMultiplier>
    multipliers_list,        \* Vec<MultiplierId>
    claims_in_period,        \* ClaimsInPeriod
    block_number,            \* env().block_number()
    balance,                 \* env().balance(): the treasury
    account_balance,         \* the balance of every other account
    claimed,                 \* history: who claimed successfully, and in which period
    last                     \* the last call: message, arguments, result

storage == <<transfered_owner, owner, beneficiaries, beneficiaries_accounts,
             periodicity, base_payment, initial_block, paused_block_at,
             next_multiplier_id, base_multipliers, multipliers_list,
             claims_in_period>>

env == <<block_number, balance, account_balance>>

vars == <<transfered_owner, owner, beneficiaries, beneficiaries_accounts,
          periodicity, base_payment, initial_block, paused_block_at,
          next_multiplier_id, base_multipliers, multipliers_list,
          claims_in_period, block_number, balance, account_balance, claimed, last>>

\* ---------------------------------------------------------------- helpers

\* A call and its result, as the variable last records it.
Call(op, caller, account, num, list, res) ==
    [op |-> op, caller |-> caller, account |-> account, num |-> num,
     list |-> list, res |-> res]

\* Mapping::insert.
Insert(map, key, value) ==
    [k \in DOMAIN map \cup {key} |-> IF k = key THEN value ELSE map[k]]

\* Mapping::remove.
Remove(map, key) == [k \in DOMAIN map \ {key} |-> map[k]]

\* Vec::retain(|x| *x != v).
RECURSIVE Retain(_, _)
Retain(s, v) ==
    IF s = <<>> THEN <<>>
    ELSE IF Head(s) = v THEN Retain(Tail(s), v)
    ELSE <<Head(s)>> \o Retain(Tail(s), v)

\* iter().position(|x| *x == v): the first index holding v, 0 when there is none.
Position(s, v) ==
    IF \E i \in 1 .. Len(s) : s[i] = v
    THEN CHOOSE i \in 1 .. Len(s) : s[i] = v /\ \A j \in 1 .. (i - 1) : s[j] # v
    ELSE 0

\* Vec::remove(index).
RemoveAt(s, i) == [j \in 1 .. (Len(s) - 1) |-> IF j < i THEN s[j] ELSE s[j + 1]]

\* The sum of the weights m holds under the ids of S.
RECURSIVE SumWeights(_, _)
SumWeights(m, S) ==
    IF S = {} THEN 0
    ELSE LET k == CHOOSE x \in S : TRUE
         IN m[k] + SumWeights(m, S \ {k})

\* vec_to_btreemap: a later pair of the same id overwrites an earlier one.
vec_to_btreemap(vec) ==
    [id \in {vec[i][1] : i \in 1 .. Len(vec)} |->
        vec[CHOOSE i \in 1 .. Len(vec) :
                /\ vec[i][1] = id
                /\ \A j \in (i + 1) .. Len(vec) : vec[j][1] # id][2]]

\* check_no_duplicate_multipliers: Ok iff no multiplier id occurs twice.
check_no_duplicate_multipliers(vec) ==
    \A i, j \in 1 .. Len(vec) : i # j => vec[i][1] # vec[j][1]

\* check_no_duplicate_beneficiaries: Ok iff no account occurs twice.
check_no_duplicate_beneficiaries(ids) ==
    \A i, j \in 1 .. Len(ids) : i # j => ids[i] # ids[j]

\* check_multipliers_are_valid: the first failing pair decides the error.
RECURSIVE check_multipliers_are_valid(_)
check_multipliers_are_valid(vec) ==
    IF vec = <<>> THEN "Ok"
    ELSE IF Head(vec)[1] \notin DOMAIN base_multipliers THEN "MultiplierNotFound"
    ELSE IF base_multipliers[Head(vec)[1]].valid_until_block # None
         THEN "MultiplierAlreadyDeactivated"
    ELSE check_multipliers_are_valid(Tail(vec))

\* ensure_owner as it would answer if the pending nominee passed for the owner.
ensure_owner_or_nominee(caller) == caller \in {owner, transfered_owner}

\* ensure_owner.
ensure_owner(caller) == owner = caller

\* is_paused.
is_paused == paused_block_at # None

\* get_current_period_initial_block as it would compute if the periods were
\* counted from block 0 and not from initial_block (line 703).
get_current_period_initial_block_from_zero ==
    block_number - (block_number % periodicity)

\* get_current_period_initial_block.
get_current_period_initial_block ==
    block_number - ((block_number - initial_block) % periodicity)

\* get_next_block_period.
get_next_block_period == get_current_period_initial_block + periodicity

\* _get_amount_to_claim_for_one_period; the unfiltered sum unwraps the registry
\* entry of every id the beneficiary holds (see ForOnePeriodAborts).
_get_amount_to_claim_for_one_period(beneficiary, filtered_multipliers) ==
    LET m == beneficiary.multipliers
        final_multiplier ==
            IF DOMAIN m = {} THEN 1
            ELSE IF filtered_multipliers THEN SumWeights(m, DOMAIN m)
            ELSE SumWeights(m, {k \in DOMAIN m :
                                  /\ k \in DOMAIN base_multipliers
                                  /\ base_multipliers[k].valid_until_block = None})
    IN (final_multiplier * base_payment) \div 100

\* The unwrap of _get_amount_to_claim_for_one_period panics.
ForOnePeriodAborts(beneficiary, filtered_multipliers) ==
    /\ ~filtered_multipliers
    /\ \E k \in DOMAIN beneficiary.multipliers : k \notin DOMAIN base_multipliers

\* _get_amount_to_claim_in_block.
_get_amount_to_claim_in_block(account_id, filtered_multipliers, block) ==
    LET beneficiary == beneficiaries[account_id]
        blocks_since_last_payment == block - beneficiary.last_updated_period_block
        unclaimed_periods == blocks_since_last_payment \div periodicity
    IN IF unclaimed_periods = 0 THEN beneficiary.unclaimed_payments
       ELSE _get_amount_to_claim_for_one_period(beneficiary, filtered_multipliers)
                * unclaimed_periods + beneficiary.unclaimed_payments

\* _get_amount_to_claim_in_block panics: the u32 subtraction underflows, or the
\* per-period sum is needed and its unwrap fails.
InBlockAborts(account_id, filtered_multipliers, block) ==
    LET beneficiary == beneficiaries[account_id]
    IN \/ block < beneficiary.last_updated_period_block
       \/ /\ (block - beneficiary.last_updated_period_block) \div periodicity # 0
          /\ ForOnePeriodAborts(beneficiary, filtered_multipliers)

\* _get_amount_to_claim.
_get_amount_to_claim(account_id, filtered_multipliers) ==
    _get_amount_to_claim_in_block(account_id, filtered_multipliers, block_number)

\* get_amount_to_claim of a registered account (AccountNotFound otherwise).
get_amount_to_claim(account_id) == _get_amount_to_claim(account_id, FALSE)

\* get_amount_to_claim: its result; the returned amount is computed with the
\* unfiltered sum, which unwraps the registry entry of every id held.
get_amount_to_claim_result(account_id) ==
    IF account_id \notin DOMAIN beneficiaries THEN "AccountNotFound"
    ELSE IF InBlockAborts(account_id, FALSE, block_number) THEN "Panic"
    ELSE "Ok"

\* The message get_amount_to_claim (&self): the amount is returned to the
\* caller (recorded in last.num), nothing is written.
read_amount_to_claim(caller, account_id) ==
    LET res == get_amount_to_claim_result(account_id)
    IN /\ last' = Call("get_amount_to_claim", caller, account_id,
                       IF res = "Ok" THEN get_amount_to_claim(account_id) ELSE 0,
                       <<>>, res)
       /\ UNCHANGED <<storage, env, claimed>>

\* The loops of the read-only messages over beneficiaries_accounts: the unwrap
\* of the registry record of an id of the index panics when the id is not
\* registered.
IndexLookupAborts ==
    \E i \in 1 .. Len(beneficiaries_accounts) :
        beneficiaries_accounts[i] \notin DOMAIN beneficiaries

\* The test of get_total_debts, get_unclaimed_beneficiaries and
\* get_count_of_unclaim_beneficiaries: the record was last updated before the
\* current period.
UpdatedBeforePeriod(account_id) ==
    beneficiaries[account_id].last_updated_period_block < get_current_period_initial_block

\* get_total_debts: the loop over the entries of accounts.
RECURSIVE DebtsOf(_)
DebtsOf(accounts) ==
    IF accounts = <<>> THEN 0
    ELSE (IF UpdatedBeforePeriod(Head(accounts))
          THEN _get_amount_to_claim(Head(accounts), FALSE)
          ELSE 0) + DebtsOf(Tail(accounts))

\* get_total_debts panics: an unwrap of the loop or of the amounts fails.
TotalDebtsAborts ==
    \/ IndexLookupAborts
    \/ \E i \in 1 .. Len(beneficiaries_accounts) :
          /\ UpdatedBeforePeriod(beneficiaries_accounts[i])
          /\ InBlockAborts(beneficiaries_accounts[i], FALSE, block_number)

\* get_total_debts.
get_total_debts == DebtsOf(beneficiaries_accounts)

\* get_unclaimed_beneficiaries: the loop over the entries of accounts.
RECURSIVE UnclaimedOf(_)
UnclaimedOf(accounts) ==
    IF accounts = <<>> THEN <<>>
    ELSE (IF UpdatedBeforePeriod(Head(accounts)) THEN <<Head(accounts)>> ELSE <<>>)
            \o UnclaimedOf(Tail(accounts))

\* get_unclaimed_beneficiaries.
get_unclaimed_beneficiaries == UnclaimedOf(beneficiaries_accounts)

\* get_count_of_unclaim_beneficiaries: a u8 counter.
get_count_of_unclaim_beneficiaries ==
    Cardinality({i \in 1 .. Len(beneficiaries_accounts) :
                    UpdatedBeforePeriod(beneficiaries_accounts[i])}) % 256

\* _update_claims_in_period as it would compute if it restarted the tally at
\* every claim, without the increment of line 636.
_update_claims_in_period_restarting(claiming_period_block) ==
    [period |-> claiming_period_block, total_claims |-> 1]

\* _update_claims_in_period: the new tally.
_update_claims_in_period(claiming_period_block) ==
    IF claiming_period_block = claims_in_period.period
    THEN [claims_in_period EXCEPT !.total_claims = @ + 1]
    ELSE [period |-> claiming_period_block, total_claims |-> 1]

\* ensure_all_claimed_in_period.
ensure_all_claimed_in_period ==
    LET claiming_period_block == get_current_period_initial_block
    IN \/ /\ claiming_period_block = claims_in_period.period
          /\ claims_in_period.total_claims = Len(beneficiaries_accounts)
       \/ claiming_period_block = 0

\* ---------------------------------------------------------------- constructor

\* The Vec<InitialBeneficiary> arguments explored: at most MaxInitialBeneficiaries
\* entries, accounts possibly repeated.
MaxInitialBeneficiaries == 2

InitialBeneficiaries ==
    [account_id : BeneficiaryIds, multipliers : WeightLists]

InitialBeneficiaryLists ==
    UNION {[1 .. n -> InitialBeneficiaries] : n \in 0 .. MaxInitialBeneficiaries}

\* new: the result for n initial multiplier names and the initial beneficiaries.
new_result(p, b, n, initial_beneficiaries) ==
    IF b <= 0 \/ p = 0 THEN "InvalidParams"
    ELSE IF ~check_no_duplicate_beneficiaries(
                [i \in 1 .. Len(initial_beneficiaries) |-> initial_beneficiaries[i].account_id])
         THEN "DuplicatedBeneficiaries"
    ELSE IF Len(initial_beneficiaries) > MAX_BENEFICIARIES THEN "MaxBeneficiariesExceeded"
    ELSE IF n > MAX_MULTIPLIERS THEN "MaxMultipliersExceeded"
    ELSE LET rejected == {i \in 1 .. Len(initial_beneficiaries) :
                            \/ Len(initial_beneficiaries[i].multipliers) # n
                            \/ ~check_no_duplicate_multipliers(
                                    initial_beneficiaries[i].multipliers)}
         IN IF rejected = {} THEN "Ok"
            ELSE LET i == CHOOSE x \in rejected : \A y \in rejected : x <= y
                 IN IF Len(initial_beneficiaries[i].multipliers) # n
                    THEN "InvalidMultipliersLength"
                    ELSE "DuplicatedMultipliers"

\* new as it would construct if the beneficiaries started with
\* last_updated_period_block 0 and not initial_block_number (line 143).
new_updated_at_zero(p, b, n, initial_beneficiaries, blk) ==
    /\ transfered_owner = NoAccount
    /\ owner = Deployer
    /\ beneficiaries =
         [a \in {initial_beneficiaries[i].account_id : i \in 1 .. Len(initial_beneficiaries)} |->
            LET i == CHOOSE i \in 1 .. Len(initial_beneficiaries) :
                        initial_beneficiaries[i].account_id = a
            IN [multipliers |-> vec_to_btreemap(initial_beneficiaries[i].multipliers),
                unclaimed_payments |-> 0,
                last_updated_period_block |-> 0]]
    /\ beneficiaries_accounts =
         [i \in 1 .. Len(initial_beneficiaries) |-> initial_beneficiaries[i].account_id]
    /\ periodicity = p
    /\ base_payment = b
    /\ initial_block = blk
    /\ paused_block_at = None
    /\ next_multiplier_id = n
    /\ base_multipliers = [id \in 0 .. (n - 1) |-> [valid_until_block |-> None]]
    /\ multipliers_list = [i \in 1 .. n |-> i - 1]
    /\ claims_in_period = [period |-> 0, total_claims |-> 0]

\* new: the storage a successful construction leaves, at block blk.
new(p, b, n, initial_beneficiaries, blk) ==
    /\ transfered_owner = NoAccount
    /\ owner = Deployer
    /\ beneficiaries =
         [a \in {initial_beneficiaries[i].account_id : i \in 1 .. Len(initial_beneficiaries)} |->
            LET i == CHOOSE i \in 1 .. Len(initial_beneficiaries) :
                        initial_beneficiaries[i].account_id = a
            IN [multipliers |-> vec_to_btreemap(initial_beneficiaries[i].multipliers),
                unclaimed_payments |-> 0,
                last_updated_period_block |-> blk]]
    /\ beneficiaries_accounts =
         [i \in 1 .. Len(initial_beneficiaries) |-> initial_beneficiaries[i].account_id]
    /\ periodicity = p
    /\ base_payment = b
    /\ initial_block = blk
    /\ paused_block_at = None
    /\ next_multiplier_id = n
    /\ base_multipliers = [id \in 0 .. (n - 1) |-> [valid_until_block |-> None]]
    /\ multipliers_list = [i \in 1 .. n |-> i - 1]
    /\ claims_in_period = [period |-> 0, total_claims |-> 0]

\* The contract after a successful construction, its arguments drawn from ps
\* (periodicity), bs (base payment), ns (number of multiplier names) and bens
\* (initial beneficiaries), deployed at a block of blks.
Constructed(ps, bs, ns, bens, blks) ==
    \E p \in ps, b \in bs, n \in ns, initial_beneficiaries \in bens, blk \in blks :
        /\ new_result(p, b, n, initial_beneficiaries) = "Ok"
        /\ new(p, b, n, initial_beneficiaries, blk)
        /\ block_number = blk
        /\ balance = InitialBalance
        /\ account_balance = [a \in Accounts |-> 0]
        /\ claimed = [period |-> blk, accounts |-> {}]
        /\ last = Call("new", Deployer, NoAccount, n, initial_beneficiaries, "Ok")

\* ---------------------------------------------------------------- host

\* The host produces the next block.
advance_block ==
    /\ block_number < MaxBlock
    /\ block_number' = block_number + 1
    /\ last' = Call("advance_block", NoAccount, NoAccount, 0, <<>>, "Ok")
    /\ UNCHANGED <<storage, balance, account_balance, claimed>>

\* ---------------------------------------------------------------- claim_payment

\* The closure of retain in claim_payment: keep a multiplier that is not
\* deactivated, or is deactivated with the current block before its end.
KeepMultiplier(k) ==
    LET a == base_multipliers[k].valid_until_block
    IN a = None \/ a > block_number

\* beneficiary.multipliers.retain(..) in claim_payment.
SweptMultipliers(m) == [k \in {x \in DOMAIN m : KeepMultiplier(x)} |-> m[k]]

\* The unwrap inside retain panics: a held id has no registry entry.
SweepAborts(m) == \E k \in DOMAIN m : k \notin DOMAIN base_multipliers

\* claim_payment: the total the amount is checked against (read from storage).
ClaimTotal(account_id) == _get_amount_to_claim(account_id, TRUE)

\* claim_payment as it would answer without the test of the treasury balance
\* (lines 206-209).
claim_payment_result_unfunded(account_id, amount, transfer_ok) ==
    IF is_paused THEN "ContractIsPaused"
    ELSE IF account_id \notin DOMAIN beneficiaries THEN "AccountNotFound"
    ELSE IF SweepAborts(beneficiaries[account_id].multipliers) THEN "Panic"
    ELSE IF InBlockAborts(account_id, TRUE, block_number) THEN "Panic"
    ELSE IF amount > ClaimTotal(account_id) THEN "ClaimedAmountIsBiggerThanAvailable"
    ELSE IF amount > 0 /\ ~transfer_ok THEN "TransferFailed"
    ELSE "Ok"

\* claim_payment as it would answer without ensure_is_not_paused (line 181).
claim_payment_result_unpaused(account_id, amount, transfer_ok) ==
    IF account_id \notin DOMAIN beneficiaries THEN "AccountNotFound"
    ELSE IF SweepAborts(beneficiaries[account_id].multipliers) THEN "Panic"
    ELSE IF InBlockAborts(account_id, TRUE, block_number) THEN "Panic"
    ELSE IF amount > ClaimTotal(account_id) THEN "ClaimedAmountIsBiggerThanAvailable"
    ELSE IF amount > balance THEN "NotEnoughBalanceInTreasury"
    ELSE IF amount > 0 /\ ~transfer_ok THEN "TransferFailed"
    ELSE "Ok"

\* claim_payment: its result.
claim_payment_result(account_id, amount, transfer_ok) ==
    IF is_paused THEN "ContractIsPaused"
    ELSE IF account_id \notin DOMAIN beneficiaries THEN "AccountNotFound"
    ELSE IF SweepAborts(beneficiaries[account_id].multipliers) THEN "Panic"
    ELSE IF InBlockAborts(account_id, TRUE, block_number) THEN "Panic"
    ELSE IF amount > ClaimTotal(account_id) THEN "ClaimedAmountIsBiggerThanAvailable"
    ELSE IF amount > balance THEN "NotEnoughBalanceInTreasury"
    ELSE IF amount > 0 /\ ~transfer_ok THEN "TransferFailed"
    ELSE "Ok"

\* claim_payment: the record written back.
ClaimedBeneficiary(account_id, amount) ==
    [multipliers |-> SweptMultipliers(beneficiaries[account_id].multipliers),
     unclaimed_payments |-> ClaimTotal(account_id) - amount,
     last_updated_period_block |-> get_current_period_initial_block]

claim_payment(caller, account_id, amount, transfer_ok) ==
    LET res == claim_payment_result(account_id, amount, transfer_ok)
        claiming_period_block == get_current_period_initial_block
    IN /\ res \in {"Ok", "TransferFailed"} => ClaimTotal(account_id) - amount <= MaxUnclaimed
       /\ last' = Call("claim_payment", caller, account_id, amount, <<>>, res)
       /\ IF res \in {"Ok", "TransferFailed"}
          THEN /\ claims_in_period' =
                    IF beneficiaries[account_id].last_updated_period_block
                           # claiming_period_block
                    THEN _update_claims_in_period(claiming_period_block)
                    ELSE claims_in_period
               /\ beneficiaries' =
                    Insert(beneficiaries, account_id, ClaimedBeneficiary(account_id, amount))
          ELSE UNCHANGED <<claims_in_period, beneficiaries>>
       /\ IF res = "Ok" /\ amount > 0
          THEN /\ balance' = balance - amount
               /\ account_balance' = [account_balance EXCEPT ![account_id] = @ + amount]
          ELSE UNCHANGED <<balance, account_balance>>
       /\ claimed' =
            IF res # "Ok" THEN claimed
            ELSE IF claimed.period = claiming_period_block
                 THEN [claimed EXCEPT !.accounts = @ \cup {account_id}]
                 ELSE [period |-> claiming_period_block, accounts |-> {account_id}]
       /\ UNCHANGED <<transfered_owner, owner, beneficiaries_accounts, periodicity,
                      base_payment, initial_block, paused_block_at, next_multiplier_id,
                      base_multipliers, multipliers_list, block_number>>

\* ---------------------------------------------------------------- multipliers

\* deactivate_multiplier as it would answer without the test of line 244 for a
\* multiplier already deactivated.
deactivate_multiplier_result_again(multiplier_id) ==
    IF multiplier_id \notin DOMAIN base_multipliers THEN "MultiplierNotFound"
    ELSE "Ok"

\* deactivate_multiplier: its result.
deactivate_multiplier_result(multiplier_id) ==
    IF multiplier_id \notin DOMAIN base_multipliers THEN "MultiplierNotFound"
    ELSE IF base_multipliers[multiplier_id].valid_until_block # None
         THEN "MultiplierAlreadyDeactivated"
    ELSE "Ok"

deactivate_multiplier(caller, multiplier_id) ==
    LET res == deactivate_multiplier_result(multiplier_id)
        valid_until_block == get_current_period_initial_block + periodicity
    IN /\ last' = Call("deactivate_multiplier", caller, NoAccount, multiplier_id, <<>>, res)
       /\ base_multipliers' =
            IF res = "Ok"
            THEN Insert(base_multipliers, multiplier_id,
                        [valid_until_block |-> valid_until_block])
            ELSE base_multipliers
       /\ UNCHANGED <<transfered_owner, owner, beneficiaries, beneficiaries_accounts,
                      periodicity, base_payment, initial_block, paused_block_at,
                      next_multiplier_id, multipliers_list, claims_in_period,
                      env, claimed>>

\* delete_unused_multiplier as it would answer without the test of line 266 for a
\* multiplier that was never deactivated.
delete_unused_multiplier_result_untested(multiplier_id) ==
    IF multiplier_id \notin DOMAIN base_multipliers THEN "MultiplierNotFound"
    ELSE IF block_number > base_multipliers[multiplier_id].valid_until_block
         THEN "MultiplierNotExpired"
    ELSE IF ~ensure_all_claimed_in_period THEN "NotAllClaimedInPeriod"
    ELSE "Ok"

\* delete_unused_multiplier: its result.
delete_unused_multiplier_result(multiplier_id) ==
    IF multiplier_id \notin DOMAIN base_multipliers THEN "MultiplierNotFound"
    ELSE IF base_multipliers[multiplier_id].valid_until_block = None
         THEN "MultiplierNotDeactivated"
    ELSE IF block_number > base_multipliers[multiplier_id].valid_until_block
         THEN "MultiplierNotExpired"
    ELSE IF ~ensure_all_claimed_in_period THEN "NotAllClaimedInPeriod"
    ELSE "Ok"

delete_unused_multiplier(caller, multiplier_id) ==
    LET res == delete_unused_multiplier_result(multiplier_id)
    IN /\ last' = Call("delete_unused_multiplier", caller, NoAccount, multiplier_id, <<>>, res)
       /\ IF res = "Ok"
          THEN /\ multipliers_list' = Retain(multipliers_list, multiplier_id)
               /\ base_multipliers' = Remove(base_multipliers, multiplier_id)
          ELSE UNCHANGED <<multipliers_list, base_multipliers>>
       /\ UNCHANGED <<transfered_owner, owner, beneficiaries, beneficiaries_accounts,
                      periodicity, base_payment, initial_block, paused_block_at,
                      next_multiplier_id, claims_in_period, env, claimed>>

\* add_base_multiplier: its result.
add_base_multiplier_result(caller) ==
    IF ~ensure_owner(caller) THEN "NotOwner"
    ELSE IF Len(multipliers_list) + 1 > MAX_MULTIPLIERS THEN "MaxMultipliersExceeded"
    ELSE "Ok"

\* add_base_multiplier as it would act if it stored the multiplier without
\* advancing next_multiplier_id (line 515).
add_base_multiplier_reusing(caller) ==
    LET res == add_base_multiplier_result(caller)
    IN /\ res = "Ok" => next_multiplier_id < MaxMultiplierId
       /\ last' = Call("add_base_multiplier", caller, NoAccount, 0, <<>>, res)
       /\ IF res = "Ok"
          THEN /\ base_multipliers' =
                    Insert(base_multipliers, next_multiplier_id, [valid_until_block |-> None])
               /\ multipliers_list' = Append(multipliers_list, next_multiplier_id)
          ELSE UNCHANGED <<base_multipliers, multipliers_list>>
       /\ UNCHANGED <<transfered_owner, owner, beneficiaries, beneficiaries_accounts,
                      periodicity, base_payment, initial_block, paused_block_at,
                      next_multiplier_id, claims_in_period, env, claimed>>

add_base_multiplier(caller) ==
    LET res == add_base_multiplier_result(caller)
    IN /\ res = "Ok" => next_multiplier_id < MaxMultiplierId
       /\ last' = Call("add_base_multiplier", caller, NoAccount, 0, <<>>, res)
       /\ IF res = "Ok"
          THEN /\ base_multipliers' =
                    Insert(base_multipliers, next_multiplier_id, [valid_until_block |-> None])
               /\ multipliers_list' = Append(multipliers_list, next_multiplier_id)
               /\ next_multiplier_id' = next_multiplier_id + 1
          ELSE UNCHANGED <<base_multipliers, multipliers_list, next_multiplier_id>>
       /\ UNCHANGED <<transfered_owner, owner, beneficiaries, beneficiaries_accounts,
                      periodicity, base_payment, initial_block, paused_block_at,
                      claims_in_period, env, claimed>>

\* ---------------------------------------------------------------- ownership

transfer_ownership(caller, new_owner) ==
    LET res == IF ensure_owner(caller) THEN "Ok" ELSE "NotOwner"
    IN /\ last' = Call("transfer_ownership", caller, new_owner, 0, <<>>, res)
       /\ transfered_owner' = IF res = "Ok" THEN new_owner ELSE transfered_owner
       /\ UNCHANGED <<owner, beneficiaries, beneficiaries_accounts, periodicity,
                      base_payment, initial_block, paused_block_at, next_multiplier_id,
                      base_multipliers, multipliers_list, claims_in_period, env, claimed>>

\* accept_ownership as it would act if it let any caller take over a pending
\* handoff (without the comparison of line 340 with the caller).
accept_ownership_by_anyone(caller) ==
    LET res == IF transfered_owner # NoAccount THEN "Ok" ELSE "NotOwner"
    IN /\ last' = Call("accept_ownership", caller, NoAccount, 0, <<>>, res)
       /\ IF res = "Ok"
          THEN /\ owner' = caller
               /\ transfered_owner' = NoAccount
          ELSE UNCHANGED <<owner, transfered_owner>>
       /\ UNCHANGED <<beneficiaries, beneficiaries_accounts, periodicity,
                      base_payment, initial_block, paused_block_at, next_multiplier_id,
                      base_multipliers, multipliers_list, claims_in_period, env, claimed>>

accept_ownership(caller) ==
    LET res == IF transfered_owner = caller THEN "Ok" ELSE "NotOwner"
    IN /\ last' = Call("accept_ownership", caller, NoAccount, 0, <<>>, res)
       /\ IF res = "Ok"
          THEN /\ owner' = transfered_owner
               /\ transfered_owner' = NoAccount
          ELSE UNCHANGED <<owner, transfered_owner>>
       /\ UNCHANGED <<beneficiaries, beneficiaries_accounts, periodicity,
                      base_payment, initial_block, paused_block_at, next_multiplier_id,
                      base_multipliers, multipliers_list, claims_in_period, env, claimed>>

\* ---------------------------------------------------------------- beneficiaries

\* add_beneficiary as it would answer without check_multipliers_are_valid
\* (line 396).
add_beneficiary_result_any_weights(caller, account_id, multipliers) ==
    IF ~ensure_owner(caller) THEN "NotOwner"
    ELSE IF account_id \in DOMAIN beneficiaries THEN "AccountAlreadyExists"
    ELSE IF Len(beneficiaries_accounts) + 1 > MAX_BENEFICIARIES
         THEN "MaxBeneficiariesExceeded"
    ELSE IF ~check_no_duplicate_multipliers(multipliers) THEN "DuplicatedMultipliers"
    ELSE "Ok"

\* add_beneficiary: its result.
add_beneficiary_result(caller, account_id, multipliers) ==
    IF ~ensure_owner(caller) THEN "NotOwner"
    ELSE IF account_id \in DOMAIN beneficiaries THEN "AccountAlreadyExists"
    ELSE IF Len(beneficiaries_accounts) + 1 > MAX_BENEFICIARIES
         THEN "MaxBeneficiariesExceeded"
    ELSE IF check_multipliers_are_valid(multipliers) # "Ok"
         THEN check_multipliers_are_valid(multipliers)
    ELSE IF ~check_no_duplicate_multipliers(multipliers) THEN "DuplicatedMultipliers"
    ELSE "Ok"

add_beneficiary(caller, account_id, multipliers) ==
    LET res == add_beneficiary_result(caller, account_id, multipliers)
    IN /\ last' = Call("add_beneficiary", caller, account_id, 0, multipliers, res)
       /\ IF res = "Ok"
          THEN /\ beneficiaries' =
                    Insert(beneficiaries, account_id,
                           [multipliers |-> vec_to_btreemap(multipliers),
                            unclaimed_payments |-> 0,
                            last_updated_period_block |-> get_current_period_initial_block])
               /\ beneficiaries_accounts' = Append(beneficiaries_accounts, account_id)
          ELSE UNCHANGED <<beneficiaries, beneficiaries_accounts>>
       /\ UNCHANGED <<transfered_owner, owner, periodicity, base_payment, initial_block,
                      paused_block_at, next_multiplier_id, base_multipliers,
                      multipliers_list, claims_in_period, env, claimed>>

\* update_beneficiary: its result.
update_beneficiary_result(caller, account_id, multipliers) ==
    IF ~ensure_owner(caller) THEN "NotOwner"
    ELSE IF account_id \notin DOMAIN beneficiaries THEN "AccountNotFound"
    ELSE IF Len(beneficiaries_accounts) + 1 > MAX_BENEFICIARIES
         THEN "MaxBeneficiariesExceeded"
    ELSE IF check_multipliers_are_valid(multipliers) # "Ok"
         THEN check_multipliers_are_valid(multipliers)
    ELSE IF ~check_no_duplicate_multipliers(multipliers) THEN "DuplicatedMultipliers"
    ELSE IF InBlockAborts(account_id, FALSE, block_number) THEN "Panic"
    ELSE "Ok"

\* update_beneficiary: the index after a successful call.
UpdatedIndex(account_id) == Append(beneficiaries_accounts, account_id)

update_beneficiary(caller, account_id, multipliers) ==
    LET res == update_beneficiary_result(caller, account_id, multipliers)
    IN /\ res = "Ok" => _get_amount_to_claim(account_id, FALSE) <= MaxUnclaimed
       /\ last' = Call("update_beneficiary", caller, account_id, 0, multipliers, res)
       /\ IF res = "Ok"
          THEN /\ beneficiaries' =
                    Insert(beneficiaries, account_id,
                           [multipliers |-> vec_to_btreemap(multipliers),
                            unclaimed_payments |-> _get_amount_to_claim(account_id, FALSE),
                            last_updated_period_block |-> get_current_period_initial_block])
               /\ beneficiaries_accounts' = UpdatedIndex(account_id)
          ELSE UNCHANGED <<beneficiaries, beneficiaries_accounts>>
       /\ UNCHANGED <<transfered_owner, owner, periodicity, base_payment, initial_block,
                      paused_block_at, next_multiplier_id, base_multipliers,
                      multipliers_list, claims_in_period, env, claimed>>

\* remove_beneficiary: its result.
remove_beneficiary_result(caller, account_id) ==
    IF ~ensure_owner(caller) THEN "NotOwner"
    ELSE IF account_id \notin DOMAIN beneficiaries THEN "AccountNotFound"
    ELSE IF Position(beneficiaries_accounts, account_id) = 0 THEN "Panic"
    ELSE "Ok"

remove_beneficiary(caller, account_id) ==
    LET res == remove_beneficiary_result(caller, account_id)
    IN /\ last' = Call("remove_beneficiary", caller, account_id, 0, <<>>, res)
       /\ IF res = "Ok"
          THEN /\ beneficiaries' = Remove(beneficiaries, account_id)
               /\ beneficiaries_accounts' =
                    RemoveAt(beneficiaries_accounts,
                             Position(beneficiaries_accounts, account_id))
          ELSE UNCHANGED <<beneficiaries, beneficiaries_accounts>>
       /\ UNCHANGED <<transfered_owner, owner, periodicity, base_payment, initial_block,
                      paused_block_at, next_multiplier_id, base_multipliers,
                      multipliers_list, claims_in_period, env, claimed>>

\* ---------------------------------------------------------------- parameters

\* update_base_payment as it would answer without the test of line 490 for the
\* value 0.
update_base_payment_result_any(caller, value) ==
    IF ~ensure_owner(caller) THEN "NotOwner"
    ELSE IF ~ensure_all_claimed_in_period THEN "NotAllClaimedInPeriod"
    ELSE "Ok"

\* update_base_payment: its result.
update_base_payment_result(caller, value) ==
    IF ~ensure_owner(caller) THEN "NotOwner"
    ELSE IF value = 0 THEN "InvalidParams"
    ELSE IF ~ensure_all_claimed_in_period THEN "NotAllClaimedInPeriod"
    ELSE "Ok"

update_base_payment(caller, value) ==
    LET res == update_base_payment_result(caller, value)
    IN /\ last' = Call("update_base_payment", caller, NoAccount, value, <<>>, res)
       /\ base_payment' = IF res = "Ok" THEN value ELSE base_payment
       /\ UNCHANGED <<transfered_owner, owner, beneficiaries, beneficiaries_accounts,
                      periodicity, initial_block, paused_block_at, next_multiplier_id,
                      base_multipliers, multipliers_list, claims_in_period, env, claimed>>

\* update_periodicity: its result.
update_periodicity_result(caller, value) ==
    IF ~ensure_owner(caller) THEN "NotOwner"
    ELSE IF value = 0 THEN "InvalidParams"
    ELSE IF ~ensure_all_claimed_in_period THEN "NotAllClaimedInPeriod"
    ELSE "Ok"

\* update_periodicity as it would act if it stored the value (line 531) before
\* the test of ensure_all_claimed_in_period (line 527).
update_periodicity_early(caller, value) ==
    LET res == update_periodicity_result(caller, value)
    IN /\ last' = Call("update_periodicity", caller, NoAccount, value, <<>>, res)
       /\ periodicity' =
            IF res \in {"Ok", "NotAllClaimedInPeriod"} THEN value ELSE periodicity
       /\ UNCHANGED <<transfered_owner, owner, beneficiaries, beneficiaries_accounts,
                      base_payment, initial_block, paused_block_at, next_multiplier_id,
                      base_multipliers, multipliers_list, claims_in_period, env, claimed>>

update_periodicity(caller, value) ==
    LET res == update_periodicity_result(caller, value)
    IN /\ last' = Call("update_periodicity", caller, NoAccount, value, <<>>, res)
       /\ periodicity' = IF res = "Ok" THEN value ELSE periodicity
       /\ UNCHANGED <<transfered_owner, owner, beneficiaries, beneficiaries_accounts,
                      base_payment, initial_block, paused_block_at, next_multiplier_id,
                      base_multipliers, multipliers_list, claims_in_period, env, claimed>>

\* ---------------------------------------------------------------- pause switch

\* pause as it would act without the early return of lines 668-670 for a
\* contract already paused.
pause_again(caller) ==
    LET res == IF ensure_owner(caller) THEN "Ok" ELSE "NotOwner"
    IN /\ last' = Call("pause", caller, NoAccount, 0, <<>>, res)
       /\ paused_block_at' = IF res = "Ok" THEN block_number ELSE paused_block_at
       /\ UNCHANGED <<transfered_owner, owner, beneficiaries, beneficiaries_accounts,
                      periodicity, base_payment, initial_block, next_multiplier_id,
                      base_multipliers, multipliers_list, claims_in_period, env, claimed>>

pause(caller) ==
    LET res == IF ensure_owner(caller) THEN "Ok" ELSE "NotOwner"
    IN /\ last' = Call("pause", caller, NoAccount, 0, <<>>, res)
       /\ paused_block_at' =
            IF res = "Ok" /\ ~is_paused THEN block_number ELSE paused_block_at
       /\ UNCHANGED <<transfered_owner, owner, beneficiaries, beneficiaries_accounts,
                      periodicity, base_payment, initial_block, next_multiplier_id,
                      base_multipliers, multipliers_list, claims_in_period, env, claimed>>

resume(caller) ==
    LET res == IF ensure_owner(caller) THEN "Ok" ELSE "NotOwner"
    IN /\ last' = Call("resume", caller, NoAccount, 0, <<>>, res)
       /\ paused_block_at' = IF res = "Ok" THEN None ELSE paused_block_at
       /\ UNCHANGED <<transfered_owner, owner, beneficiaries, beneficiaries_accounts,
                      periodicity, base_payment, initial_block, next_multiplier_id,
                      base_multipliers, multipliers_list, claims_in_period, env, claimed>>

\* ---------------------------------------------------------------- specification

\* claim_payment called by anyone of callers for an account of accounts.
Claims(callers, accounts, amounts, transfers) ==
    \E c \in callers, a \in accounts, amount \in amounts, ok \in transfers :
        claim_payment(c, a, amount, ok)

\* The messages of the beneficiary registry.
Registry(callers, accounts, lists) ==
    \/ \E c \in callers, a \in accounts, m \in lists : add_beneficiary(c, a, m)
    \/ \E c \in callers, a \in accounts, m \in lists : update_beneficiary(c, a, m)
    \/ \E c \in callers, a \in accounts : remove_beneficiary(c, a)

\* The messages of the multiplier registry.
Multipliers(callers) ==
    \/ \E c \in callers, id \in MultiplierIds : deactivate_multiplier(c, id)
    \/ \E c \in callers, id \in MultiplierIds : delete_unused_multiplier(c, id)
    \/ \E c \in callers : add_base_multiplier(c)

\* The messages that change the parameters.
Parameters(callers, payments, periods) ==
    \/ \E c \in callers, v \in payments : update_base_payment(c, v)
    \/ \E c \in callers, v \in periods : update_periodicity(c, v)

\* The pause switch and the ownership handoff.
Administration(callers) ==
    \/ \E c \in callers, n \in callers : transfer_ownership(c, n)
    \/ \E c \in callers : accept_ownership(c)
    \/ \E c \in callers : pause(c)
    \/ \E c \in callers : resume(c)

NoWeights == {<<>>}

\* The ledger without multipliers: registrations, claims and parameter updates
\* of two beneficiaries, by the owner.
Init ==
    Constructed({2}, {100}, {0},
                {b \in InitialBeneficiaryLists : \A i \in 1 .. Len(b) : b[i].multipliers = <<>>},
                0 .. MaxInitialBlock)

Next ==
    \/ advance_block
    \/ Claims({Deployer}, BeneficiaryIds, {0}, {TRUE})
    \/ Registry({Deployer}, BeneficiaryIds, NoWeights)
    \/ Parameters({Deployer}, {0, 100}, Periodicities \cup {0})

Spec == Init /\ [][Next]_vars

\* The multiplier registry and the claims of one beneficiary holding multipliers.
InitMultipliers ==
    Constructed(Periodicities, {100}, {1, 2},
                {b \in InitialBeneficiaryLists : Len(b) = 1 /\ b[1].account_id = "bob"},
                {0})

NextMultipliers ==
    \/ advance_block
    \/ Claims({Deployer}, {"bob"}, 0 .. MaxAmount, {TRUE})
    \/ Multipliers({Deployer})

SpecMultipliers == InitMultipliers /\ [][NextMultipliers]_vars

\* The weights of one beneficiary under change: registrations and updates with
\* weight lists, deactivations and claims.
InitWeights ==
    Constructed({1}, {100}, {1},
                {b \in InitialBeneficiaryLists : Len(b) = 1 /\ b[1].account_id = "bob"},
                {0})

NextWeights ==
    \/ advance_block
    \/ Claims({Deployer}, {"bob"}, {0, 1}, {TRUE})
    \/ Registry({Deployer}, {"bob"}, WeightLists)
    \/ \E id \in MultiplierIds : deactivate_multiplier(Deployer, id)

SpecWeights == InitWeights /\ [][NextWeights]_vars

\* Every message called by the owner and by another account, the ownership
\* handoff and the pause switch included, in the first two blocks.
InitAdministration ==
    Constructed({1}, {100}, {1},
                {b \in InitialBeneficiaryLists :
                    Len(b) = 1 /\ b[1] = [account_id |-> "bob", multipliers |-> <<<<0, 2>>>>]},
                {0})

NextAdministration ==
    \/ (block_number < 1 /\ advance_block)
    \/ Claims(Callers, {"bob"}, {0}, {TRUE})
    \/ Registry(Callers, {"bob"}, NoWeights)
    \/ Multipliers(Callers)
    \/ Parameters(Callers, {100}, {1})
    \/ Administration(Callers)

SpecAdministration == InitAdministration /\ [][NextAdministration]_vars

\* The pause switch: claims and the owner's administration while the contract
\* is paused and while it is not.
InitPause ==
    Constructed({1}, {100}, {1},
                {b \in InitialBeneficiaryLists :
                    Len(b) = 1 /\ b[1] = [account_id |-> "bob", multipliers |-> <<<<0, 2>>>>]},
                {0})

NextPause ==
    \/ advance_block
    \/ Claims(Callers, BeneficiaryIds, {0, 1}, {TRUE})
    \/ Registry({Deployer}, {"bob"}, NoWeights)
    \/ deactivate_multiplier(Deployer, 0)
    \/ Parameters({Deployer}, {100}, {1})
    \/ Administration({Deployer})

SpecPause == InitPause /\ [][NextPause]_vars

\* The claims of two beneficiaries without weights: every amount, the transfer
\* succeeding or failing, the treasury running out.
InitClaims ==
    Constructed(Periodicities, {100}, {0},
                {b \in InitialBeneficiaryLists :
                    Len(b) = 2 /\ \A i \in 1 .. Len(b) : b[i].multipliers = <<>>},
                {0})

NextClaims ==
    \/ advance_block
    \/ Claims({Deployer}, BeneficiaryIds, 0 .. MaxAmount, {TRUE, FALSE})

SpecClaims == InitClaims /\ [][NextClaims]_vars

\* The amount a beneficiary may claim, read while blocks pass, claims are paid
\* and multipliers are deactivated and deleted; the constructor arguments
\* include the weights 100 and 20 with base_payment 1000 and periodicity 2.
ExampleWeights == {<<>>, <<<<0, 2>>, <<1, 3>>>>, <<<<0, 100>>, <<1, 20>>>>}

InitAmount ==
    Constructed({2}, {100, 1000}, {2},
                {<<[account_id |-> "bob", multipliers |-> m]>> : m \in ExampleWeights},
                {0})

NextAmount ==
    \/ advance_block
    \/ \E a \in BeneficiaryIds : read_amount_to_claim(Deployer, a)
    \/ Claims({Deployer}, {"bob"}, 0 .. MaxAmount, {TRUE})
    \/ \E id \in MultiplierIds : deactivate_multiplier(Deployer, id)
    \/ \E id \in MultiplierIds : delete_unused_multiplier(Deployer, id)

SpecAmount == InitAmount /\ [][NextAmount]_vars

\* The constructor with every argument explored, followed by the first claims.
InitConstructor ==
    Constructed(Periodicities, BasePayments, 0 .. MAX_MULTIPLIERS,
                InitialBeneficiaryLists, 0 .. MaxInitialBlock)

NextConstructor ==
    \/ advance_block
    \/ Claims({Deployer}, BeneficiaryIds, {0}, {TRUE})

SpecConstructor == InitConstructor /\ [][NextConstructor]_vars

\* ---------------------------------------------------------------- properties

\* Everything a call can change: the storage and the balances.
ledger == <<storage, balance, account_balance>>

\* The ids of the index.
IndexIds == {beneficiaries_accounts[i] : i \in 1 .. Len(beneficiaries_accounts)}

\* The amount owed as section 4.4 of the specification computes it for a claim:
\* the expired weights are swept first, every remaining weight counts.
OwedAfterSweep(account_id) ==
    LET beneficiary == beneficiaries[account_id]
        swept == [beneficiary EXCEPT !.multipliers = SweptMultipliers(@)]
        elapsed_periods ==
            (block_number - beneficiary.last_updated_period_block) \div periodicity
    IN IF elapsed_periods = 0 THEN beneficiary.unclaimed_payments
       ELSE _get_amount_to_claim_for_one_period(swept, TRUE) * elapsed_periods
                + beneficiary.unclaimed_payments

\* Every multiplier id the beneficiary holds has a registry entry.
HoldsRegistered(account_id) ==
    DOMAIN beneficiaries[account_id].multipliers \subseteq DOMAIN base_multipliers

\* The last step was a call of message op.
Called(op) == last'.op = op

\* C1: the index holds no id twice and its ids are the keys of the registry,
\* so its length is the number of registered beneficiaries.
C1_IndexMatchesRegistry ==
    /\ \A i, j \in 1 .. Len(beneficiaries_accounts) :
          i # j => beneficiaries_accounts[i] # beneficiaries_accounts[j]
    /\ IndexIds = DOMAIN beneficiaries
    /\ Len(beneficiaries_accounts) = Cardinality(DOMAIN beneficiaries)

\* C2: a claim of more than the amount owed to a registered beneficiary (here:
\* of a contract that is not paused, every held multiplier registered) fails
\* with ClaimedAmountIsBiggerThanAvailable and changes nothing.
C2_ClaimAboveOwedFails ==
    [][(/\ Called("claim_payment")
        /\ ~is_paused
        /\ last'.account \in DOMAIN beneficiaries
        /\ HoldsRegistered(last'.account)
        /\ last'.num > OwedAfterSweep(last'.account))
       => (/\ last'.res = "ClaimedAmountIsBiggerThanAvailable"
           /\ UNCHANGED ledger)]_vars

\* C3: with owed the value of get_amount_to_claim before the call, a successful
\* claim of owed leaves unclaimed_payments 0, a successful claim of less leaves
\* owed - amount, and get_amount_to_claim then returns what was left.
C3_ClaimLeavesCarryover ==
    [][\A a \in BeneficiaryIds :
        (/\ Called("claim_payment")
         /\ last'.account = a
         /\ last'.res = "Ok"
         /\ last'.num <= get_amount_to_claim(a))
        => (/\ beneficiaries'[a].unclaimed_payments = get_amount_to_claim(a) - last'.num
            /\ get_amount_to_claim(a)' = beneficiaries'[a].unclaimed_payments)]_vars

\* C4: a successful claim stores the weights that remain after the sweep of the
\* expired multipliers and derives unclaimed_payments from the total of those
\* remaining weights.
C4_TotalAfterSweep ==
    [][(/\ Called("claim_payment")
        /\ last'.res = "Ok")
       => (/\ beneficiaries'[last'.account].multipliers
                = SweptMultipliers(beneficiaries[last'.account].multipliers)
           /\ beneficiaries'[last'.account].unclaimed_payments
                = OwedAfterSweep(last'.account) - last'.num)]_vars

\* Every registered beneficiary has settled in the current period.
AllSettled ==
    \A a \in DOMAIN beneficiaries :
        beneficiaries[a].last_updated_period_block = get_current_period_initial_block

\* The current block lies in the first period after deployment.
InGenesisPeriod == block_number - initial_block < periodicity

GuardedMessages == {"update_base_payment", "update_periodicity", "delete_unused_multiplier"}

\* C5: outside the genesis period a guarded message succeeds only when every
\* registered beneficiary has settled in the current period.
C5_GuardMeansAllSettled ==
    [][(/\ last'.op \in GuardedMessages
        /\ ~InGenesisPeriod
        /\ last'.res = "Ok")
       => AllSettled]_vars

\* C6: outside the genesis period, once every registered beneficiary has claimed
\* successfully in the current period, the owner's update_base_payment and
\* update_periodicity with a positive value succeed.
C6_AllClaimedMeansGuardOpen ==
    [][(/\ last'.op \in {"update_base_payment", "update_periodicity"}
        /\ last'.caller = owner
        /\ last'.num > 0
        /\ ~InGenesisPeriod
        /\ DOMAIN beneficiaries # {}
        /\ claimed.period = get_current_period_initial_block
        /\ DOMAIN beneficiaries \subseteq claimed.accounts)
       => last'.res = "Ok"]_vars

\* C7: in the genesis period the owner's update_base_payment and
\* update_periodicity with a positive value succeed, whatever the deployment block.
C7_GenesisGuardOpen ==
    [][(/\ last'.op \in {"update_base_payment", "update_periodicity"}
        /\ last'.caller = owner
        /\ last'.num > 0
        /\ InGenesisPeriod)
       => last'.res = "Ok"]_vars

\* C8: delete_unused_multiplier of a deactivated multiplier before its
\* valid_until_block fails with MultiplierNotExpired and leaves the registry
\* and the list as they were.
C8_DeleteBeforeExpiryFails ==
    [][(/\ Called("delete_unused_multiplier")
        /\ last'.num \in DOMAIN base_multipliers
        /\ base_multipliers[last'.num].valid_until_block # None
        /\ block_number < base_multipliers[last'.num].valid_until_block)
       => (/\ last'.res = "MultiplierNotExpired"
           /\ UNCHANGED <<multipliers_list, base_multipliers>>)]_vars

\* C9: delete_unused_multiplier of a deactivated multiplier past its
\* valid_until_block, the settlement guard satisfied, succeeds and removes the
\* id from the list and the registry, the other ids keeping their order.
C9_DeleteAfterExpirySucceeds ==
    [][(/\ Called("delete_unused_multiplier")
        /\ last'.num \in DOMAIN base_multipliers
        /\ base_multipliers[last'.num].valid_until_block # None
        /\ block_number > base_multipliers[last'.num].valid_until_block
        /\ ensure_all_claimed_in_period)
       => (/\ last'.res = "Ok"
           /\ multipliers_list' = Retain(multipliers_list, last'.num)
           /\ base_multipliers' = Remove(base_multipliers, last'.num))]_vars

\* C10: delete_unused_multiplier fails with MultiplierNotFound for an id absent
\* from the registry and with MultiplierNotDeactivated for a multiplier never
\* deactivated, and changes nothing in either case.
C10_DeleteOfActiveOrAbsentFails ==
    [][Called("delete_unused_multiplier")
       => (/\ last'.num \notin DOMAIN base_multipliers
                => (last'.res = "MultiplierNotFound" /\ UNCHANGED ledger)
           /\ (/\ last'.num \in DOMAIN base_multipliers
               /\ base_multipliers[last'.num].valid_until_block = None)
                => (last'.res = "MultiplierNotDeactivated" /\ UNCHANGED ledger))]_vars

\* C10 happens: a multiplier never deactivated was refused deletion.
C10_Witness ==
    /\ last.op = "delete_unused_multiplier"
    /\ last.res = "MultiplierNotDeactivated"
    /\ last.num \in DOMAIN base_multipliers
    /\ base_multipliers[last.num].valid_until_block = None

\* The first block of the period after the current one.
NextPeriodStart ==
    CHOOSE h \in (block_number + 1) .. (block_number + periodicity) :
        (h - initial_block) % periodicity = 0

\* C11: deactivate_multiplier of an active multiplier sets valid_until_block to
\* the start of the next period, of a deactivated one fails with
\* MultiplierAlreadyDeactivated; a valid_until_block once set stays as it is in
\* every step, until delete_unused_multiplier removes the multiplier.
C11_DeactivationIsFinal ==
    [][/\ \A id \in DOMAIN base_multipliers :
            base_multipliers[id].valid_until_block # None
            => \/ /\ id \in DOMAIN base_multipliers'
                  /\ base_multipliers'[id] = base_multipliers[id]
               \/ /\ id \notin DOMAIN base_multipliers'
                  /\ last'.op = "delete_unused_multiplier"
                  /\ last'.num = id
                  /\ last'.res = "Ok"
       /\ (Called("deactivate_multiplier") /\ last'.num \in DOMAIN base_multipliers)
            => IF base_multipliers[last'.num].valid_until_block = None
               THEN /\ last'.res = "Ok"
                    /\ base_multipliers'[last'.num].valid_until_block = NextPeriodStart
               ELSE /\ last'.res = "MultiplierAlreadyDeactivated"
                    /\ UNCHANGED ledger]_vars

\* C11 happens: a second deactivation of a multiplier was refused, in a later
\* period than the one its valid_until_block was computed in.
C11_Witness ==
    /\ last.op = "deactivate_multiplier"
    /\ last.res = "MultiplierAlreadyDeactivated"
    /\ last.num \in DOMAIN base_multipliers
    /\ base_multipliers[last.num].valid_until_block # None
    /\ base_multipliers[last.num].valid_until_block # NextPeriodStart

\* C12: a successful deactivate_multiplier leaves get_amount_to_claim of every
\* beneficiary (every multiplier it holds registered) at the value it had
\* before the call.
C12_DeactivationKeepsOwed ==
    [][(Called("deactivate_multiplier") /\ last'.res = "Ok")
       => \A a \in DOMAIN beneficiaries :
            HoldsRegistered(a) => get_amount_to_claim(a)' = get_amount_to_claim(a)]_vars

\* Every multiplier the beneficiary holds is registered and in force: it was not
\* deactivated, or the current block is before its valid_until_block.
HoldsInForce(account_id) ==
    /\ HoldsRegistered(account_id)
    /\ \A k \in DOMAIN beneficiaries[account_id].multipliers : KeepMultiplier(k)

\* C13: a successful update_beneficiary of a beneficiary whose weights are all
\* in force stores as unclaimed_payments the full amount owed under the previous
\* weights, the current period start as last_updated_period_block and the new
\* weights.
C13_UpdateKeepsOwed ==
    [][\A a \in BeneficiaryIds :
        (/\ Called("update_beneficiary")
         /\ last'.account = a
         /\ last'.res = "Ok"
         /\ HoldsInForce(a))
        => (/\ beneficiaries'[a].unclaimed_payments = OwedAfterSweep(a)
            /\ beneficiaries'[a].last_updated_period_block = get_current_period_initial_block
            /\ beneficiaries'[a].multipliers = vec_to_btreemap(last'.list))]_vars

\* C14: update_beneficiary called by the owner for a registered account with a
\* valid weight list succeeds, however many beneficiaries are registered.
C14_UpdateOfRegisteredSucceeds ==
    [][(/\ Called("update_beneficiary")
        /\ last'.caller = owner
        /\ last'.account \in DOMAIN beneficiaries
        /\ check_multipliers_are_valid(last'.list) = "Ok"
        /\ check_no_duplicate_multipliers(last'.list))
       => last'.res = "Ok"]_vars

\* The messages that start with ensure_owner.
OwnerOnlyMessages ==
    {"add_beneficiary", "update_beneficiary", "remove_beneficiary",
     "add_base_multiplier", "update_base_payment", "update_periodicity",
     "pause", "resume", "transfer_ownership"}

\* C15: an owner-only message called by an account that is not the current
\* owner fails with NotOwner and changes neither the storage nor a balance.
C15_OnlyOwnerAdministers ==
    [][(/\ last'.op \in OwnerOnlyMessages
        /\ last'.caller # owner)
       => (/\ last'.res = "NotOwner"
           /\ UNCHANGED ledger)]_vars

\* C15 happens: after a handoff the previous owner was refused.
C15_Witness ==
    /\ last.op \in OwnerOnlyMessages
    /\ last.res = "NotOwner"
    /\ owner # Deployer
    /\ last.caller = Deployer

\* C16: deactivate_multiplier and delete_unused_multiplier called by an account
\* that is not the current owner change neither a valid_until_block nor
\* multipliers_list nor base_multipliers.
C16_OnlyOwnerManagesMultipliers ==
    [][(/\ last'.op \in {"deactivate_multiplier", "delete_unused_multiplier"}
        /\ last'.caller # owner)
       => UNCHANGED <<multipliers_list, base_multipliers>>]_vars

\* C17: transfer_ownership by the owner sets the pending nominee and leaves the
\* owner; accept_ownership by the pending nominee makes the caller the owner
\* and clears the pending field, by anyone else fails with NotOwner and changes
\* nothing; no other step changes the owner.
C17_OwnershipByHandoff ==
    [][/\ (Called("transfer_ownership") /\ last'.caller = owner)
            => (/\ last'.res = "Ok"
                /\ transfered_owner' = last'.account
                /\ owner' = owner)
       /\ Called("accept_ownership")
            => IF last'.caller = transfered_owner
               THEN /\ last'.res = "Ok"
                    /\ owner' = last'.caller
                    /\ transfered_owner' = NoAccount
               ELSE /\ last'.res = "NotOwner"
                    /\ UNCHANGED ledger
       /\ owner' # owner
            => (Called("accept_ownership") /\ last'.res = "Ok")]_vars

\* C17 happens: the nominee has accepted and owns the contract, and a further
\* accept_ownership was refused.
C17_Witness ==
    /\ owner # Deployer
    /\ transfered_owner = NoAccount
    /\ last.op = "accept_ownership"
    /\ last.res = "NotOwner"

\* The messages of the administration: everything but claim_payment and the
\* pause switch itself.
AdministrativeMessages ==
    {"add_beneficiary", "update_beneficiary", "remove_beneficiary",
     "add_base_multiplier", "deactivate_multiplier", "delete_unused_multiplier",
     "update_base_payment", "update_periodicity",
     "transfer_ownership", "accept_ownership"}

\* C18: claim_payment of a paused contract fails with ContractIsPaused and
\* changes nothing; of a contract that is not paused, and so after a successful
\* resume, it is never refused as paused; an administrative message is never
\* refused as paused and leaves the switch as it is.
C18_PauseStopsOnlyClaims ==
    [][/\ (Called("claim_payment") /\ is_paused)
            => (last'.res = "ContractIsPaused" /\ UNCHANGED ledger)
       /\ (Called("claim_payment") /\ ~is_paused)
            => last'.res # "ContractIsPaused"
       /\ (Called("resume") /\ last'.res = "Ok")
            => ~is_paused'
       /\ last'.op \in AdministrativeMessages
            => (last'.res # "ContractIsPaused" /\ paused_block_at' = paused_block_at)]_vars

\* C18 happens: a claim for a registered beneficiary was refused because the
\* contract has been paused since an earlier block.
C18_Witness ==
    /\ is_paused
    /\ paused_block_at < block_number
    /\ last.op = "claim_payment"
    /\ last.account \in DOMAIN beneficiaries
    /\ last.res = "ContractIsPaused"

\* Every field of the storage but paused_block_at, and the balances.
AllButPause ==
    <<transfered_owner, owner, beneficiaries, beneficiaries_accounts, periodicity,
      base_payment, initial_block, next_multiplier_id, base_multipliers,
      multipliers_list, claims_in_period, balance, account_balance>>

\* C19: pause by the owner returns Ok and leaves paused_block_at of a paused
\* contract at the block of the first pause; resume by the owner returns Ok and
\* leaves a contract that is not paused as it is; both change no field other
\* than paused_block_at; no step changes initial_block.
C19_PauseResumeIdempotent ==
    [][/\ (Called("pause") /\ last'.caller = owner)
            => (/\ last'.res = "Ok"
                /\ paused_block_at' = IF is_paused THEN paused_block_at ELSE block_number
                /\ UNCHANGED AllButPause)
       /\ (Called("resume") /\ last'.caller = owner)
            => (/\ last'.res = "Ok"
                /\ paused_block_at' = None
                /\ UNCHANGED AllButPause)
       /\ initial_block' = initial_block]_vars

\* C19 happens: pause was called on a contract paused at an earlier block, and
\* the block of the first pause is still recorded.
C19_Witness ==
    /\ last.op = "pause"
    /\ last.res = "Ok"
    /\ is_paused
    /\ paused_block_at < block_number

\* C20: never more than MAX_BENEFICIARIES beneficiaries are registered, and
\* add_beneficiary called by the owner for an unregistered account with a valid
\* weight list succeeds when fewer than MAX_BENEFICIARIES are registered and
\* otherwise fails with MaxBeneficiariesExceeded and changes nothing.
C20_CapacityOfRegistry ==
    [][/\ Cardinality(DOMAIN beneficiaries') <= MAX_BENEFICIARIES
       /\ (/\ Called("add_beneficiary")
           /\ last'.caller = owner
           /\ last'.account \notin DOMAIN beneficiaries
           /\ check_multipliers_are_valid(last'.list) = "Ok"
           /\ check_no_duplicate_multipliers(last'.list))
            => IF Cardinality(DOMAIN beneficiaries) < MAX_BENEFICIARIES
               THEN last'.res = "Ok"
               ELSE /\ last'.res = "MaxBeneficiariesExceeded"
                    /\ UNCHANGED ledger]_vars

\* multipliers_list holds at most MAX_MULTIPLIERS ids, none twice, and its ids
\* are the keys of base_multipliers, all below next_multiplier_id.
MultipliersListed ==
    /\ Len(multipliers_list) <= MAX_MULTIPLIERS
    /\ \A i, j \in 1 .. Len(multipliers_list) :
          i # j => multipliers_list[i] # multipliers_list[j]
    /\ {multipliers_list[i] : i \in 1 .. Len(multipliers_list)} = DOMAIN base_multipliers
    /\ \A id \in DOMAIN base_multipliers : id < next_multiplier_id

\* C21: multipliers_list never holds more than MAX_MULTIPLIERS ids and is the
\* key set of base_multipliers without duplicates; add_base_multiplier by the
\* owner fails with MaxMultipliersExceeded when the list is full and otherwise
\* appends an active multiplier under next_multiplier_id; next_multiplier_id
\* never decreases and exceeds every id in use, so a new id was never used.
C21_MultiplierIdsAreFresh ==
    [][/\ MultipliersListed
       /\ MultipliersListed'
       /\ next_multiplier_id' >= next_multiplier_id
       /\ \A id \in DOMAIN base_multipliers' \ DOMAIN base_multipliers :
            id >= next_multiplier_id
       /\ (Called("add_base_multiplier") /\ last'.caller = owner)
            => IF Len(multipliers_list) >= MAX_MULTIPLIERS
               THEN /\ last'.res = "MaxMultipliersExceeded"
                    /\ UNCHANGED ledger
               ELSE /\ last'.res = "Ok"
                    /\ multipliers_list' = Append(multipliers_list, next_multiplier_id)
                    /\ base_multipliers' =
                         Insert(base_multipliers, next_multiplier_id,
                                [valid_until_block |-> None])]_vars

\* C21 happens: a multiplier was added after multiplier 0 had been deleted, and
\* did not get the id 0 again.
C21_Witness ==
    /\ last.op = "add_base_multiplier"
    /\ last.res = "Ok"
    /\ 0 \notin DOMAIN base_multipliers
    /\ DOMAIN base_multipliers # {}

\* C22: a claim_payment that returns TransferFailed leaves the ledger as it was
\* before the call: the beneficiary's record, claims_in_period and the balances.
C22_FailedTransferChangesNothing ==
    [][(/\ Called("claim_payment")
        /\ last'.res = "TransferFailed")
       => UNCHANGED ledger]_vars

\* The results that are neither success, nor the failed transfer, nor an abort.
IsValidationError(res) == res \notin {"Ok", "TransferFailed", "Panic"}

C24_TreasuryCoversClaims ==
    [][/\ balance >= 0
       /\ balance' >= 0
       /\ (/\ Called("claim_payment")
           /\ ~is_paused
           /\ last'.account \in DOMAIN beneficiaries
           /\ HoldsRegistered(last'.account)
           /\ last'.num <= ClaimTotal(last'.account)
           /\ last'.num > balance)
          => (/\ last'.res = "NotEnoughBalanceInTreasury"
              /\ UNCHANGED ledger)
       /\ (/\ Called("claim_payment")
           /\ last'.res = "Ok")
          => (/\ balance' = balance - last'.num
              /\ account_balance' =
                   [account_balance EXCEPT ![last'.account] = @ + last'.num])]_vars

\* C24 happens: a claim within the amount owed was refused because the treasury
\* held less, after the treasury had paid another account than the caller.
C24_Witness ==
    /\ last.op = "claim_payment"
    /\ last.res = "NotEnoughBalanceInTreasury"
    /\ last.caller # last.account
    /\ balance < InitialBalance

\* The multiplier is registered and not deactivated.
IsActive(multiplier_id) ==
    /\ multiplier_id \in DOMAIN base_multipliers
    /\ base_multipliers[multiplier_id].valid_until_block = None

\* The amount of section 4.3 of the specification: floor(S * base_payment / 100)
\* for every elapsed period, S the sum of the weights of the multipliers not
\* deactivated (1 for an empty weight mapping), plus unclaimed_payments.
AmountOwed(account_id) ==
    LET beneficiary == beneficiaries[account_id]
        m == beneficiary.multipliers
        e == (block_number - beneficiary.last_updated_period_block) \div periodicity
        S == IF DOMAIN m = {} THEN 1
             ELSE SumWeights(m, {k \in DOMAIN m : IsActive(k)})
    IN IF e = 0 THEN beneficiary.unclaimed_payments
       ELSE ((S * base_payment) \div 100) * e + beneficiary.unclaimed_payments

\* C25: get_amount_to_claim of a registered beneficiary returns unclaimed_payments
\* when no period has elapsed and otherwise floor(S * base_payment / 100) for
\* each elapsed period plus unclaimed_payments, and changes no state.
C25_AmountToClaim ==
    [][(/\ Called("get_amount_to_claim")
        /\ last'.account \in DOMAIN beneficiaries)
       => (/\ last'.res = "Ok"
           /\ last'.num = AmountOwed(last'.account)
           /\ UNCHANGED ledger)]_vars

\* The start of the period of height h, as the specification defines it.
period_start(h) == h - ((h - initial_block) % periodicity)

\* C26: with periodicity > 0 and genesis initial_block, every height h from the
\* genesis to the current block satisfies period_start(h) <= h <
\* period_start(h) + periodicity, period_start(h) is a whole number of periods
\* after the genesis, and period_start(period_start(h)) = period_start(h);
\* get_current_period_initial_block is period_start of the current block and
\* get_next_block_period is one periodicity later.
C26_PeriodStart ==
    /\ \A h \in initial_block .. block_number :
          /\ period_start(h) <= h
          /\ h < period_start(h) + periodicity
          /\ period_start(h) >= initial_block
          /\ (period_start(h) - initial_block) % periodicity = 0
          /\ period_start(period_start(h)) = period_start(h)
    /\ get_current_period_initial_block = period_start(block_number)
    /\ get_next_block_period = period_start(block_number) + periodicity

\* C26 happens: the genesis is block 1 and the periods of length 2 start at odd
\* blocks; block 2 lies inside the first period.
C26_Witness ==
    /\ initial_block = 1
    /\ periodicity = 2
    /\ block_number = 2
    /\ get_current_period_initial_block = 1
    /\ get_next_block_period = 3

\* C27: a successful claim_payment at block b, of any amount, sets the
\* beneficiary's last_updated_period_block to period_start(b); when the previous
\* value differed from period_start(b) it registers one settlement event,
\* total_claims + 1 if the tally is of period_start(b) and {period_start(b), 1}
\* otherwise; when it did not differ the tally stays.
C27_OneEventPerPeriod ==
    [][\A a \in BeneficiaryIds :
        (/\ Called("claim_payment")
         /\ last'.account = a
         /\ last'.res = "Ok")
        => (/\ beneficiaries'[a].last_updated_period_block = period_start(block_number)
            /\ claims_in_period' =
                 IF beneficiaries[a].last_updated_period_block = period_start(block_number)
                 THEN claims_in_period
                 ELSE IF claims_in_period.period = period_start(block_number)
                      THEN [period |-> period_start(block_number),
                            total_claims |-> claims_in_period.total_claims + 1]
                      ELSE [period |-> period_start(block_number), total_claims |-> 1])]_vars

\* C27 happens: a claim of amount 0 was the second settlement event of a period
\* that starts before the current block.
C27_Witness ==
    /\ last.op = "claim_payment"
    /\ last.res = "Ok"
    /\ last.num = 0
    /\ claims_in_period.total_claims = 2
    /\ claims_in_period.period = period_start(block_number)
    /\ period_start(block_number) < block_number

\* C28: a successful remove_beneficiary(id) leaves id neither in the registry
\* nor in the index, the other index entries stay in their order, and every id
\* of the index still has a registry record; on an unregistered id the owner's
\* call fails with AccountNotFound and changes nothing.
C28_RemoveLeavesNoTrace ==
    [][\A a \in BeneficiaryIds :
        (/\ Called("remove_beneficiary")
         /\ last'.account = a
         /\ last'.caller = owner)
        => (/\ last'.res = "Ok"
                => (/\ a \notin DOMAIN beneficiaries'
                    /\ a \notin IndexIds'
                    /\ beneficiaries_accounts' = Retain(beneficiaries_accounts, a)
                    /\ IndexIds' \subseteq DOMAIN beneficiaries')
            /\ a \notin DOMAIN beneficiaries
                => (/\ last'.res = "AccountNotFound"
                    /\ UNCHANGED ledger))]_vars

ConstructorRejectsZero ==
    \A p \in Periodicities \cup {0}, b \in BasePayments \cup {0},
       n \in 0 .. MAX_MULTIPLIERS, l \in InitialBeneficiaryLists :
        (p = 0 \/ b = 0) => new_result(p, b, n, l) = "InvalidParams"

\* C30: periodicity and base_payment are positive in every reachable state: the
\* constructor rejects a zero with InvalidParams, and update_periodicity(0) and
\* update_base_payment(0) by the owner fail with InvalidParams and change
\* nothing.
C30_ParametersStayPositive ==
    /\ ConstructorRejectsZero
    /\ periodicity > 0
    /\ base_payment > 0
    /\ [][/\ periodicity' > 0
          /\ base_payment' > 0
          /\ (/\ Called("update_periodicity") \/ Called("update_base_payment")
              /\ last'.caller = owner
              /\ last'.num = 0)
             => (/\ last'.res = "InvalidParams"
                 /\ UNCHANGED ledger)]_vars

\* C30 happens: the owner's update_base_payment(0) was refused.
C30_Witness ==
    /\ last.op = "update_base_payment"
    /\ last.caller = owner
    /\ last.num = 0
    /\ last.res = "InvalidParams"

\* C31: the last_updated_period_block of every registered beneficiary is a
\* period boundary of the current parameters: a whole number of periodicities
\* after initial_block.
C31_SettledOnPeriodBoundary ==
    \A a \in DOMAIN beneficiaries :
        (beneficiaries[a].last_updated_period_block - initial_block) % periodicity = 0

\* The sum of get_amount_to_claim over the beneficiaries of S.
RECURSIVE TotalOwed(_)
TotalOwed(S) ==
    IF S = {} THEN 0
    ELSE LET a == CHOOSE x \in S : TRUE
         IN get_amount_to_claim(a) + TotalOwed(S \ {a})

\* C32: get_total_debts returns the sum of get_amount_to_claim over the
\* registered beneficiaries, and 0 when each of them has settled in the current
\* period with nothing carried over.
C32_TotalDebts ==
    /\ ~TotalDebtsAborts
    /\ get_total_debts = TotalOwed(DOMAIN beneficiaries)
    /\ (\A a \in DOMAIN beneficiaries :
            /\ beneficiaries[a].last_updated_period_block = period_start(block_number)
            /\ beneficiaries[a].unclaimed_payments = 0)
        => get_total_debts = 0

\* C33: get_unclaimed_beneficiaries returns, in the order of the index and each
\* once, the registered beneficiaries whose last_updated_period_block is earlier
\* than the current period start, and get_count_of_unclaim_beneficiaries returns
\* its length; the list is empty throughout the genesis period.
C33_UnclaimedBeneficiaries ==
    LET list == get_unclaimed_beneficiaries
    IN /\ ~IndexLookupAborts
       /\ \A i, j \in 1 .. Len(list) : i # j => list[i] # list[j]
       /\ {list[i] : i \in 1 .. Len(list)} =
            {a \in DOMAIN beneficiaries :
                beneficiaries[a].last_updated_period_block < period_start(block_number)}
       /\ \A i, j \in 1 .. Len(list) :
            i < j => Position(beneficiaries_accounts, list[i])
                        < Position(beneficiaries_accounts, list[j])
       /\ get_count_of_unclaim_beneficiaries = Len(list)
       /\ period_start(block_number) = initial_block => list = <<>>

\* The answers of the constructor to arguments with a positive periodicity and
\* base_payment: DuplicatedBeneficiaries for a repeated account id; for
\* distinct ids within MAX_BENEFICIARIES, MaxMultipliersExceeded for more than
\* MAX_MULTIPLIERS names and, within MAX_MULTIPLIERS, InvalidMultipliersLength
\* for a weight list whose length is not the number of names (no list
\* repeating an id), and Ok when every list has that length and no repeated id.
ConstructorAnswers ==
    \A p \in Periodicities, b \in BasePayments, n \in 0 .. (MAX_MULTIPLIERS + 1),
       l \in InitialBeneficiaryLists :
        LET repeated == \E i, j \in 1 .. Len(l) : i # j /\ l[i].account_id = l[j].account_id
            wrong_length == \E i \in 1 .. Len(l) : Len(l[i].multipliers) # n
            repeated_id == \E i \in 1 .. Len(l) : \E j, k \in 1 .. Len(l[i].multipliers) :
                              j # k /\ l[i].multipliers[j][1] = l[i].multipliers[k][1]
        IN /\ repeated => new_result(p, b, n, l) = "DuplicatedBeneficiaries"
           /\ (~repeated /\ Len(l) <= MAX_BENEFICIARIES /\ n > MAX_MULTIPLIERS)
                => new_result(p, b, n, l) = "MaxMultipliersExceeded"
           /\ (~repeated /\ Len(l) <= MAX_BENEFICIARIES /\ n <= MAX_MULTIPLIERS
                    /\ wrong_length /\ ~repeated_id)
                => new_result(p, b, n, l) = "InvalidMultipliersLength"
           /\ (~repeated /\ Len(l) <= MAX_BENEFICIARIES /\ n <= MAX_MULTIPLIERS
                    /\ ~wrong_length /\ ~repeated_id)
                => new_result(p, b, n, l) = "Ok"

\* C34: the constructor answers as ConstructorAnswers says, and the contract a
\* successful construction leaves (n names, beneficiaries last.list) has the
\* caller as owner, the multipliers 0..n-1 all active, every beneficiary with
\* unclaimed_payments 0 and last_updated_period_block = initial_block, the index
\* in input order and the tally {period 0, total_claims 0}.
C34_Constructor ==
    /\ ConstructorAnswers
    /\ last.op = "new"
        => (/\ last.res = "Ok"
            /\ owner = last.caller
            /\ initial_block = block_number
            /\ DOMAIN base_multipliers = 0 .. (last.num - 1)
            /\ \A id \in DOMAIN base_multipliers : IsActive(id)
            /\ multipliers_list = [i \in 1 .. last.num |-> i - 1]
            /\ next_multiplier_id = last.num
            /\ DOMAIN beneficiaries = {last.list[i].account_id : i \in 1 .. Len(last.list)}
            /\ \A i \in 1 .. Len(last.list) :
                  beneficiaries[last.list[i].account_id] =
                      [multipliers |-> vec_to_btreemap(last.list[i].multipliers),
                       unclaimed_payments |-> 0,
                       last_updated_period_block |-> initial_block]
            /\ beneficiaries_accounts =
                  [i \in 1 .. Len(last.list) |-> last.list[i].account_id]
            /\ claims_in_period = [period |-> 0, total_claims |-> 0])

\* C34 happens: a contract was constructed at block 1 with two multiplier names
\* and two beneficiaries, charlie before bob.
C34_Witness ==
    /\ last.op = "new"
    /\ last.num = 2
    /\ Len(last.list) = 2
    /\ beneficiaries_accounts = <<"charlie", "bob">>
    /\ initial_block = 1

\* C35: every multiplier id held in the weight mapping of a registered
\* beneficiary is a key of base_multipliers, so the unwraps of the sweep of
\* claim_payment and of the per-period sum do not abort.
C35_HeldMultipliersRegistered ==
    \A a \in DOMAIN beneficiaries :
        /\ HoldsRegistered(a)
        /\ ~SweepAborts(beneficiaries[a].multipliers)
        /\ ~ForOnePeriodAborts(beneficiaries[a], FALSE)

\* C36: for a registered beneficiary whose held multipliers are all registered,
\* with the contract not paused and the treasury covering the amount,
\* claim_payment succeeds for the amount get_amount_to_claim returns and fails
\* with ClaimedAmountIsBiggerThanAvailable for that amount plus 1.
C36_QueryAgreesWithClaim ==
    [][\A a \in BeneficiaryIds :
        (/\ Called("claim_payment")
         /\ last'.account = a
         /\ a \in DOMAIN beneficiaries
         /\ HoldsRegistered(a)
         /\ ~is_paused
         /\ last'.num <= balance)
        => (/\ last'.num = get_amount_to_claim(a) => last'.res = "Ok"
            /\ last'.num = get_amount_to_claim(a) + 1
                 => last'.res = "ClaimedAmountIsBiggerThanAvailable")]_vars

\* The registered beneficiaries that have settled in the current period.
SettledInPeriod ==
    {a \in DOMAIN beneficiaries :
        beneficiaries[a].last_updated_period_block = period_start(block_number)}

\* C37: whenever the tally is of the current period, total_claims is the number
\* of registered beneficiaries whose last_updated_period_block is the current
\* period start, hence at most the number of registered beneficiaries.
C37_TallyCountsSettled ==
    claims_in_period.period = period_start(block_number)
        => (/\ claims_in_period.total_claims = Cardinality(SettledInPeriod)
            /\ claims_in_period.total_claims <= Cardinality(DOMAIN beneficiaries))

\* C38: a successful update_base_payment or update_periodicity leaves the value
\* of get_amount_to_claim of every registered beneficiary, at the block of the
\* update, as it was before the update.
C38_UpdateKeepsAmounts ==
    [][(/\ Called("update_base_payment") \/ Called("update_periodicity")
        /\ last'.res = "Ok")
       => \A a \in DOMAIN beneficiaries :
            get_amount_to_claim(a)' = get_amount_to_claim(a)]_vars

\* The payment of one period to the beneficiary, all its multipliers active.
PerPeriod(account_id) ==
    LET m == beneficiaries[account_id].multipliers
        S == IF DOMAIN m = {} THEN 1 ELSE SumWeights(m, DOMAIN m)
    IN (S * base_payment) \div 100

\* C39: with periodicity, base_payment and weights fixed and no multiplier
\* deactivated, after every successful claim of a beneficiary registered by the
\* constructor the amount transferred to it plus its unclaimed_payments is the
\* payment of one period times the number of whole periods from initial_block
\* to the period of the claim.
C39_PaidOncePerPeriod ==
    [][\A a \in BeneficiaryIds :
        (/\ Called("claim_payment")
         /\ last'.account = a
         /\ last'.res = "Ok")
        => account_balance'[a] + beneficiaries'[a].unclaimed_payments
            = PerPeriod(a) * ((period_start(block_number) - initial_block)
                                 \div periodicity)]_vars

\* C40: the last_updated_period_block of a registered beneficiary is never
\* greater than the current block and no step decreases it.
C40_LastUpdatedMonotonic ==
    [][/\ \A a \in DOMAIN beneficiaries :
            beneficiaries[a].last_updated_period_block <= block_number
       /\ \A a \in DOMAIN beneficiaries' :
            beneficiaries'[a].last_updated_period_block <= block_number'
       /\ \A a \in DOMAIN beneficiaries \cap DOMAIN beneficiaries' :
            beneficiaries'[a].last_updated_period_block
                >= beneficiaries[a].last_updated_period_block]_vars

====
